---- MODULE Spec2Model ----
(***************************************************************************)
(* Lissajous figures visualizator (src/main.py).                           *)
(*                                                                         *)
(* The model covers the five InputWidget controls (a QSlider paired with   *)
(* a QLineEdit), the DynamicCanvas that stores the five curve parameters   *)
(* and redraws the figure, and the wiring made by ApplicationWindow.       *)
(* Qt delivers the signals of this program synchronously (direct           *)
(* connections on one thread), so a user event runs a cascade of nested    *)
(* handler calls; the cascade is modelled with an explicit call stack,     *)
(* one action per statement that changes state.                            *)
(*                                                                         *)
(* Real numbers are held in fixed point, as multiples of 1/Unit.  Texts    *)
(* are sequences of one-character strings.                                 *)
(***************************************************************************)
EXTENDS Integers, Sequences, FiniteSets, TLC

\* ------------------------------------------------------------------ bounds

\* user events (slider moves, text edits) explored after construction
MaxEvents == 2
\* handler steps allowed to one cascade before the model cuts it short
MaxSteps == 24
\* the slider positions 1..MaxSlide are offered to the user besides the ends
MaxSlide == 2

\* --------------------------------------------------------------- constants

\* fixed-point scale of the real numbers (Python floats) of the model
Unit == 1000
\* pi / 2 in fixed point: self.delta = pi / 2
HalfPi == 1571

\* Options.__init__: the five controls, in construction order
Order == <<"Delta", "a", "b", "A", "B">>
Widgets == {"Delta", "a", "b", "A", "B"}
Params == {"delta", "a", "b", "A", "B"}

\* InputWidget(label, slider_minimum, slider_maximum, default_value)
Minimum(w) == CASE w = "Delta" -> 0
                [] w \in {"a", "b"} -> -10
                [] OTHER -> 0

Maximum(w) == CASE w = "Delta" -> 360
                [] OTHER -> 10

Default(w) == CASE w = "Delta" -> 0
                [] OTHER -> 1

\* ------------------------------------------------------------- conversions

DigitChar == <<"0", "1", "2", "3", "4", "5", "6", "7", "8", "9">>
Digits == {DigitChar[i] : i \in 1..10}

DigitValue(c) == CHOOSE d \in 0..9 : DigitChar[d + 1] = c

RECURSIVE StrNat(_)
StrNat(n) == IF n < 10 THEN <<DigitChar[n + 1]>>
             ELSE StrNat(n \div 10) \o <<DigitChar[(n % 10) + 1]>>

\* str(n) of a Python int: decimal digits, "-" before a negative number
Str(n) == IF n < 0 THEN <<"-">> \o StrNat(-n) ELSE StrNat(n)

RECURSIVE Strip(_)
\* float() ignores leading and trailing white space
Strip(s) == IF s # <<>> /\ Head(s) = " " THEN Strip(Tail(s))
            ELSE IF s # <<>> /\ s[Len(s)] = " " THEN Strip(SubSeq(s, 1, Len(s) - 1))
            ELSE s

\* the text without white space and without its sign
Unsigned(s) == LET t == Strip(s)
               IN  IF t # <<>> /\ Head(t) \in {"-", "+"} THEN Tail(t) ELSE t

Negative(s) == LET t == Strip(s) IN t # <<>> /\ Head(t) = "-"

\* where the decimal point of u is, Len(u) + 1 when it has none
PointAt(u) == IF \E i \in 1..Len(u) : u[i] = "."
              THEN CHOOSE i \in 1..Len(u) : u[i] = "." /\ \A j \in 1..(i - 1) : u[j] # "."
              ELSE Len(u) + 1

\* float(s) succeeds: an optional sign, then digits with at most one point and
\* at least one digit (the texts of the model hold no exponent, inf or nan)
IsFloatLiteral(s) ==
    LET u == Unsigned(s)
    IN  /\ \A i \in 1..Len(u) : u[i] \in Digits \cup {"."}
        /\ Cardinality({i \in 1..Len(u) : u[i] = "."}) <= 1
        /\ \E i \in 1..Len(u) : u[i] \in Digits

RECURSIVE NatOf(_)
NatOf(ds) == IF ds = <<>> THEN 0
             ELSE 10 * NatOf(SubSeq(ds, 1, Len(ds) - 1)) + DigitValue(ds[Len(ds)])

RECURSIVE Pow10(_)
Pow10(k) == IF k = 0 THEN 1 ELSE 10 * Pow10(k - 1)

\* the value float(s) returns, in fixed point (exact up to three decimals)
FloatValue(s) ==
    LET u == Unsigned(s)
        k == PointAt(u)
        whole == SubSeq(u, 1, k - 1)
        frac == SubSeq(u, k + 1, Len(u))
        mag == NatOf(whole) * Unit + (NatOf(frac) * Unit) \div Pow10(Len(frac))
    IN  IF Negative(s) THEN -mag ELSE mag

\* a Python int as a real number
Real(n) == n * Unit

\* a real number handed to an int parameter of Qt (QSlider.setValue(int), a
\* Signal(int)): the binding converts it with int(), truncating toward zero
IntOf(x) == IF x >= 0 THEN x \div Unit ELSE -((-x) \div Unit)

\* ------------------------------------------------------------ Qt behaviour

\* QAbstractSlider.setValue: the value is bounded to [minimum, maximum]
BoundedValue(w, v) == IF v < Minimum(w) THEN Minimum(w)
                      ELSE IF v > Maximum(w) THEN Maximum(w)
                      ELSE v

\* a toolkit that fired its change signals on every set, changed or not
SignalAlwaysFires(old, new) == TRUE

\* QSlider.valueChanged and QLineEdit.textChanged, connected at lines 53-54,
\* fire, and so run their slot, only when setValue / setText changes what is held
SignalFires(old, new) == old # new

\* -------------------------------------------------------------- the canvas

\* the curve (A sin(a t + delta), B sin(b t)) over the fixed grid t, held as
\* the coefficients of its two sinusoids
Lissajous(A, a, delta, B, b) == [x |-> <<A, a, delta>>, y |-> <<B, b>>]

\* compute_initial_figure: x = sin(t), y = sin(t)
InitialFigure == Lissajous(Real(1), Real(1), Real(0), Real(1), Real(1))

\* update_figure: x = A sin(a t + delta), y = B sin(b t)
update_figure(p) == Lissajous(p["A"], p["a"], p["delta"], p["B"], p["b"])

\* DynamicCanvas.__init__: a = b = A = B = 1, delta = pi / 2
InitialParams == [q \in Params |-> IF q = "delta" THEN HalfPi ELSE Real(1)]

\* a wiring with the setters of a and b exchanged
HandlerCrossed(w) == CASE w = "Delta" -> "update_delta"
                       [] w = "a" -> "update_b"
                       [] w = "b" -> "update_a"
                       [] w = "A" -> "update_A"
                       [] w = "B" -> "update_B"

\* ApplicationWindow.__init__: the setter connected to each control
Handler(w) == CASE w = "Delta" -> "update_delta"
                [] w = "a" -> "update_a"
                [] w = "b" -> "update_b"
                [] w = "A" -> "update_A"
                [] w = "B" -> "update_B"

Setters == {"update_delta", "update_a", "update_b", "update_A", "update_B"}

\* the attribute each setter assigns
Target(fn) == CASE fn = "update_delta" -> "delta"
                [] fn = "update_a" -> "a"
                [] fn = "update_b" -> "b"
                [] fn = "update_A" -> "A"
                [] fn = "update_B" -> "B"

\* a setter that redraws before it assigns
SetterBodySwapped == <<"draw", "store">>

\* the statements of a setter, in order: the assignment, then update_figure()
SetterBody == <<"store", "draw">>

\* where a setter goes after statement pc
AfterStmt(pc) == IF pc = SetterBody[1] THEN SetterBody[2] ELSE "ret"

\* a handler that takes a text float() rejects for zero
TryFloatZero(s) == [ok |-> TRUE, val |-> IF IsFloatLiteral(s) THEN FloatValue(s) ELSE 0]

\* line_edit_changed, lines 72-73 and 77-78: float(new_value), or the
\* ValueError that the handler swallows
TryFloat(s) == IF IsFloatLiteral(s) THEN [ok |-> TRUE, val |-> FloatValue(s)]
               ELSE [ok |-> FALSE, val |-> 0]

\* line_edit_changed, line 74: new_value <= self.slider.maximum()
FitsSlider(w, x) == x <= Real(Maximum(w))

\* ------------------------------------------------------------ user inputs

\* the slider positions a user moves to
SliderInputs(w) == {Minimum(w), Maximum(w)} \cup (1..MaxSlide)

\* the texts a user leaves in the text field
TextInputs == { <<>>, <<"x">>, <<"-", "1">>, <<"2">>, <<"2", ".", "5">>,
                <<"5", ".", "0">>, <<"3", "6", "1">>, <<"3", "6", "0", ".", "5">> }

\* -------------------------------------------------------------------- state

VARIABLES
    phase,      \* "start", "options" (canvas built, controls being built), "running"
    built,      \* how many InputWidgets Options.__init__ has constructed
    slider,     \* slider[w]: QSlider.value() of control w
    text,       \* text[w]: QLineEdit.text() of control w
    listener,   \* listener[w]: the slot connected to w.valueChanged, or "none"
    params,     \* the canvas attributes delta, a, b, A, B
    figure,     \* the curve last plotted on the axes
    stack,      \* the calls in progress, innermost last
    emitted,    \* valueChanged emissions since the current event began
    origin,     \* the event being handled (or handled last)
    before,     \* slider, text, params and figure when that event began
    setterRan,  \* some setter of the canvas has been called
    events,     \* user events so far
    steps       \* handler steps of the current event

vars == <<phase, built, slider, text, listener, params, figure, stack, emitted,
          origin, before, setterRan, events, steps>>

Frame(fn, w, num, txt, pc) == [fn |-> fn, w |-> w, num |-> num, txt |-> txt, pc |-> pc]

Top == stack[Len(stack)]
Running(fn, pc) == stack # <<>> /\ Top.fn = fn /\ Top.pc = pc /\ steps < MaxSteps

\* the stack with the innermost call moved to pc
Goto(pc) == [stack EXCEPT ![Len(stack)].pc = pc]

Snapshot == [slider |-> slider, text |-> text, params |-> params, figure |-> figure]

Idle == phase = "running" /\ stack = <<>>

Init ==
    /\ phase = "start"
    /\ built = 0
    /\ slider = [w \in Widgets |-> 0]
    /\ text = [w \in Widgets |-> <<>>]
    /\ listener = [w \in Widgets |-> "none"]
    /\ params = [q \in Params |-> 0]
    /\ figure = [x |-> <<>>, y |-> <<>>]
    /\ stack = <<>>
    /\ emitted = <<>>
    /\ origin = [kind |-> "none", w |-> "", num |-> 0, txt |-> <<>>]
    /\ before = [slider |-> slider, text |-> text, params |-> params, figure |-> figure]
    /\ setterRan = FALSE
    /\ events = 0
    /\ steps = 0

\* ------------------------------------------------------------ construction

\* DynamicCanvas(...): MatplotlibCanvas.__init__ plots the initial figure,
\* then DynamicCanvas.__init__ sets the five attributes
NewCanvas ==
    /\ phase = "start"
    /\ figure' = InitialFigure
    /\ params' = InitialParams
    /\ phase' = "options"
    /\ UNCHANGED <<built, slider, text, listener, stack, emitted, origin, before,
                   setterRan, events, steps>>

\* InputWidget.__init__ up to line 56: a QSlider (value 0) given its range, an
\* empty QLineEdit, and the two internal connections
NewInputWidget ==
    /\ phase = "options" /\ stack = <<>> /\ built < Len(Order)
    /\ LET w == Order[built + 1]
       IN  /\ slider' = [slider EXCEPT ![w] = BoundedValue(w, 0)]
           /\ text' = [text EXCEPT ![w] = <<>>]
           /\ stack' = <<Frame("__init__", w, Default(w), <<>>, "setValue")>>
           /\ origin' = [kind |-> "init", w |-> w, num |-> Default(w), txt |-> <<>>]
    /\ emitted' = <<>>
    /\ before' = Snapshot
    /\ steps' = 0
    /\ UNCHANGED <<phase, built, listener, params, figure, setterRan, events>>

\* line 57: self.slider.setValue(default_value)
InitSetValue ==
    /\ Running("__init__", "setValue")
    /\ LET w == Top.w
           v == BoundedValue(w, Top.num)
       IN  /\ slider' = [slider EXCEPT ![w] = v]
           /\ stack' = IF SignalFires(slider[w], v)
                       THEN Append(Goto("setText"), Frame("slider_changed", w, v, <<>>, "setText"))
                       ELSE Goto("setText")
    /\ steps' = steps + 1
    /\ UNCHANGED <<phase, built, text, listener, params, figure, emitted, origin,
                   before, setterRan, events>>

\* line 58: self.input_line.edit.setText(str(default_value))
InitSetText ==
    /\ Running("__init__", "setText")
    /\ LET w == Top.w
           s == Str(Top.num)
       IN  /\ text' = [text EXCEPT ![w] = s]
           /\ stack' = IF SignalFires(text[w], s)
                       THEN Append(Goto("ret"), Frame("line_edit_changed", w, 0, s, "float"))
                       ELSE Goto("ret")
    /\ steps' = steps + 1
    /\ UNCHANGED <<phase, built, slider, listener, params, figure, emitted, origin,
                   before, setterRan, events>>

\* lines 253-257: the five setters of the canvas are connected
ConnectHandlers ==
    /\ phase = "options" /\ stack = <<>> /\ built = Len(Order)
    /\ listener' = [w \in Widgets |-> Handler(w)]
    /\ phase' = "running"
    /\ UNCHANGED <<built, slider, text, params, figure, stack, emitted, origin,
                   before, setterRan, events, steps>>

\* ---------------------------------------------------------------- handlers

\* valueChanged.emit(v) by the call on top of the stack, which is at its last
\* statement: every connected slot is called with v
Emit(w, v) ==
    /\ emitted' = Append(emitted, [w |-> w, v |-> v])
    /\ stack' = IF listener[w] = "none" THEN Goto("ret")
                ELSE Append(Goto("ret"), Frame(listener[w], w, v, <<>>, SetterBody[1]))

\* line 64: self.input_line.edit.setText(str(new_value))
SliderChangedSetText ==
    /\ Running("slider_changed", "setText")
    /\ LET w == Top.w
           s == Str(Top.num)
       IN  /\ text' = [text EXCEPT ![w] = s]
           /\ stack' = IF SignalFires(text[w], s)
                       THEN Append(Goto("emit"), Frame("line_edit_changed", w, 0, s, "float"))
                       ELSE Goto("emit")
    /\ steps' = steps + 1
    /\ UNCHANGED <<phase, built, slider, listener, params, figure, emitted, origin,
                   before, setterRan, events>>

\* line 65: self.valueChanged.emit(new_value)
SliderChangedEmit ==
    /\ Running("slider_changed", "emit")
    /\ Emit(Top.w, Top.num)
    /\ steps' = steps + 1
    /\ UNCHANGED <<phase, built, slider, text, listener, params, figure, origin,
                   before, setterRan, events>>

\* lines 72-75, 77-78: float(new_value); a ValueError ends the handler, else
\* the slider is set when the value is not above its maximum
LineEditChangedFloat ==
    /\ Running("line_edit_changed", "float")
    /\ LET w == Top.w
           r == TryFloat(Top.txt)
           v == BoundedValue(w, IntOf(r.val))
       IN  IF ~r.ok
           THEN /\ stack' = Goto("ret")
                /\ UNCHANGED slider
           ELSE IF FitsSlider(w, r.val)
           THEN /\ slider' = [slider EXCEPT ![w] = v]
                /\ stack' = IF SignalFires(slider[w], v)
                            THEN Append([stack EXCEPT ![Len(stack)] =
                                            [@ EXCEPT !.pc = "emit", !.num = r.val]],
                                        Frame("slider_changed", w, v, <<>>, "setText"))
                            ELSE [stack EXCEPT ![Len(stack)] =
                                            [@ EXCEPT !.pc = "emit", !.num = r.val]]
           ELSE /\ stack' = [stack EXCEPT ![Len(stack)] =
                                            [@ EXCEPT !.pc = "emit", !.num = r.val]]
                /\ UNCHANGED slider
    /\ steps' = steps + 1
    /\ UNCHANGED <<phase, built, text, listener, params, figure, emitted, origin,
                   before, setterRan, events>>

\* line 76: self.valueChanged.emit(new_value); valueChanged is a Signal(int),
\* so the float is delivered as an int
LineEditChangedEmit ==
    /\ Running("line_edit_changed", "emit")
    /\ Emit(Top.w, IntOf(Top.num))
    /\ steps' = steps + 1
    /\ UNCHANGED <<phase, built, slider, text, listener, params, figure, origin,
                   before, setterRan, events>>

\* update_delta, update_a, update_b, update_A, update_B, first statement:
\* the attribute is assigned
SetterStore ==
    /\ stack # <<>> /\ Top.fn \in Setters /\ Top.pc = "store" /\ steps < MaxSteps
    /\ params' = [params EXCEPT ![Target(Top.fn)] = Real(Top.num)]
    /\ stack' = Goto(AfterStmt("store"))
    /\ setterRan' = TRUE
    /\ steps' = steps + 1
    /\ UNCHANGED <<phase, built, slider, text, listener, figure, emitted, origin,
                   before, events>>

\* second statement of a setter: self.update_figure()
SetterDraw ==
    /\ stack # <<>> /\ Top.fn \in Setters /\ Top.pc = "draw" /\ steps < MaxSteps
    /\ figure' = update_figure(params)
    /\ stack' = Goto(AfterStmt("draw"))
    /\ steps' = steps + 1
    /\ UNCHANGED <<phase, built, slider, text, listener, params, emitted, origin,
                   before, setterRan, events>>

\* the innermost call returns to its caller
Return ==
    /\ stack # <<>> /\ Top.pc = "ret" /\ steps < MaxSteps
    /\ stack' = SubSeq(stack, 1, Len(stack) - 1)
    /\ built' = IF Top.fn = "__init__" THEN built + 1 ELSE built
    /\ steps' = steps + 1
    /\ UNCHANGED <<phase, slider, text, listener, params, figure, emitted, origin,
                   before, setterRan, events>>

\* -------------------------------------------------------------- user events

\* the user moves the slider of control w to v: QSlider.valueChanged(v)
UserSlide ==
    /\ Idle /\ events < MaxEvents
    /\ \E w \in Widgets : \E v \in SliderInputs(w) :
        /\ SignalFires(slider[w], v)
        /\ slider' = [slider EXCEPT ![w] = v]
        /\ stack' = <<Frame("slider_changed", w, v, <<>>, "setText")>>
        /\ origin' = [kind |-> "slider", w |-> w, num |-> v, txt |-> <<>>]
    /\ emitted' = <<>>
    /\ before' = Snapshot
    /\ events' = events + 1
    /\ steps' = 0
    /\ UNCHANGED <<phase, built, text, listener, params, figure, setterRan>>

\* the user edits the text of control w to s: QLineEdit.textChanged(s)
UserType ==
    /\ Idle /\ events < MaxEvents
    /\ \E w \in Widgets : \E s \in TextInputs :
        /\ SignalFires(text[w], s)
        /\ text' = [text EXCEPT ![w] = s]
        /\ stack' = <<Frame("line_edit_changed", w, 0, s, "float")>>
        /\ origin' = [kind |-> "text", w |-> w, num |-> 0, txt |-> s]
    /\ emitted' = <<>>
    /\ before' = Snapshot
    /\ events' = events + 1
    /\ steps' = 0
    /\ UNCHANGED <<phase, built, slider, listener, params, figure, setterRan>>

\* one statement of the call in progress
Step ==
    \/ InitSetValue
    \/ InitSetText
    \/ SliderChangedSetText
    \/ SliderChangedEmit
    \/ LineEditChangedFloat
    \/ LineEditChangedEmit
    \/ SetterStore
    \/ SetterDraw
    \/ Return

Next ==
    \/ NewCanvas
    \/ NewInputWidget
    \/ ConnectHandlers
    \/ UserSlide
    \/ UserType
    \/ Step

Spec == Init /\ [][Next]_vars

\* ------------------------------------------------------------------- claims

\* the canvas attribute that belongs to control w
OwnParam(w) == IF w = "Delta" THEN "delta" ELSE w

\* the text of control w denotes exactly the value of its slider
Agree(w) == IsFloatLiteral(text[w]) /\ FloatValue(text[w]) = Real(slider[w])

\* a user event has been handled completely
Handled == Idle /\ origin.kind \in {"slider", "text"}

\* a setter has assigned its attribute and has not yet redrawn
SetterMidway == stack # <<>> /\ Top.fn \in Setters /\ Top.pc = "draw"

\* a setter has been entered and has not yet assigned its attribute
SetterEntered == stack # <<>> /\ Top.fn \in Setters /\ Top.pc = "store"

LastEmitted == emitted[Len(emitted)]

\* the coefficient of a plotted curve that parameter q supplied
Coefficient(fig, q) == CASE q = "A" -> fig.x[1]
                         [] q = "a" -> fig.x[2]
                         [] q = "delta" -> fig.x[3]
                         [] q = "B" -> fig.y[1]
                         [] q = "b" -> fig.y[2]

\* C1: once a slider move to v has been handled, the text field of the control
\* shows v and the control has emitted valueChanged exactly once, with v.
C1_SlideEmitsOnce ==
    (Idle /\ origin.kind = "slider") =>
        /\ text[origin.w] = Str(origin.num)
        /\ emitted = <<[w |-> origin.w, v |-> origin.num]>>

\* C2: once InputWidget.__init__ has returned, slider and text field show the
\* default value and the control has emitted valueChanged zero times.
C2_InitEmitsNothing ==
    (origin.kind = "init" /\ stack = <<>>) =>
        /\ slider[origin.w] = Default(origin.w)
        /\ text[origin.w] = Str(Default(origin.w))
        /\ emitted = <<>>

\* C3: whenever no handler is running, the text field of every control
\* denotes exactly the value of its slider.
C3_ControlsAgree == Idle => \A w \in Widgets : Agree(w)

\* C4: a text edit to a string that float() rejects emits nothing and leaves
\* the slider, the five curve parameters and the figure as they were, at every
\* moment of its handling.
C4_InvalidTextDiscarded ==
    (origin.kind = "text" /\ ~IsFloatLiteral(origin.txt)) =>
        /\ emitted = <<>>
        /\ slider = before.slider
        /\ params = before.params
        /\ figure = before.figure

C4_Witness ==
    /\ Idle /\ origin.kind = "text" /\ origin.txt = <<"x">>
    /\ text[origin.w] = <<"x">>
    /\ before.params # InitialParams

\* C5: once a text edit that parses to a value above the slider's maximum has
\* been handled, the slider is where it was, the text is the one typed, and the
\* control has emitted exactly once, with the parsed value itself.
C5_OverMaxEmitsRaw ==
    (Handled /\ origin.kind = "text" /\ IsFloatLiteral(origin.txt)
        /\ FloatValue(origin.txt) > Real(Maximum(origin.w))) =>
        /\ slider = before.slider
        /\ text[origin.w] = origin.txt
        /\ Len(emitted) = 1
        /\ Real(emitted[1].v) = FloatValue(origin.txt)

\* C6: while and after a user event on control w is handled, only w emits,
\* every value it has emitted is assigned to w's own curve parameter, and the
\* other four parameters and the other four controls stay as they were.
C6_OwnListenerOnly ==
    (phase = "running" /\ origin.kind \in {"slider", "text"}) =>
        /\ \A i \in 1..Len(emitted) : emitted[i].w = origin.w
        /\ \A q \in Params \ {OwnParam(origin.w)} : params[q] = before.params[q]
        /\ \A u \in Widgets \ {origin.w} :
              slider[u] = before.slider[u] /\ text[u] = before.text[u]
        /\ (emitted # <<>> /\ ~SetterEntered) =>
              params[OwnParam(origin.w)] = Real(LastEmitted.v)
        /\ (emitted = <<>>) => params = before.params

C6_Witness ==
    /\ Handled /\ origin.w = "a" /\ emitted # <<>>
    /\ params["a"] # before.params["a"]
    /\ before.params["b"] # InitialParams["b"]

\* C7: once a setter has run, the figure on the canvas is the curve of the
\* five stored parameters, except inside a setter between its assignment and
\* its redraw; so no setter returns with its change undrawn.
C7_FigureFollowsParams ==
    (setterRan /\ ~SetterMidway) =>
        figure = Lissajous(params["A"], params["a"], params["delta"],
                           params["B"], params["b"])

C7_Witness ==
    /\ Handled /\ setterRan /\ figure # InitialFigure
    /\ figure # before.figure /\ before.figure # InitialFigure

\* the innermost call stands at a statement of its function, or at its return:
\* the positions from which Step can move
AtStatement ==
    \/ Top.pc = "ret"
    \/ Top.fn = "__init__" /\ Top.pc \in {"setValue", "setText"}
    \/ Top.fn = "slider_changed" /\ Top.pc \in {"setText", "emit"}
    \/ Top.fn = "line_edit_changed" /\ Top.pc \in {"float", "emit"}
    \/ Top.fn \in Setters /\ Top.pc \in {"store", "draw"}

\* C8: a cascade of handler calls never runs to the step limit and is never
\* stuck with a call pending (some statement can always run): every event's
\* handling ends, after fewer than MaxSteps steps, with no handler left.
C8_CascadeTerminates ==
    (stack # <<>>) => (steps < MaxSteps /\ AtStatement)

C8_Witness ==
    /\ Handled /\ origin.kind = "text" /\ IsFloatLiteral(origin.txt)
    /\ FloatValue(origin.txt) < Real(Minimum(origin.w))
    /\ Len(emitted) = 3

\* C9: once a user event on control w has been handled, if slider and text of
\* w show the same value then w's curve parameter has that value.
C9_ParamIsDisplayed ==
    (Handled /\ Agree(origin.w)) =>
        params[OwnParam(origin.w)] = Real(slider[origin.w])

\* C10: before any user input every curve parameter equals the default its
\* control shows, which is the one the initial figure was drawn with; and the
\* first redraw uses, for the untouched parameters, what their controls show.
C10_ParamsStartAtDefaults ==
    /\ (Idle /\ events = 0) =>
          /\ \A w \in Widgets : params[OwnParam(w)] = Real(slider[w])
          /\ figure = Lissajous(params["A"], params["a"], params["delta"],
                                params["B"], params["b"])
    /\ (Handled /\ events = 1 /\ figure # before.figure) =>
          \A w \in Widgets \ {origin.w} :
              Coefficient(figure, OwnParam(w)) = Real(slider[w])
====
